---- MODULE Spec2Model ----
(***************************************************************************)
(* Model of 09_msa_outlier.py: outlier detection in multiple sequence      *)
(* alignments.                                                             *)
(*                                                                         *)
(* Numbers.  The program computes in IEEE doubles.  The model computes in  *)
(* exact arithmetic: a float is a reduced fraction [num, den] with         *)
(* den > 0, and NaN is the one value with den = 0.  A z-score is a         *)
(* deviation divided by a square root, so it is kept as its sign and its   *)
(* square, which decides every comparison with a rational threshold        *)
(* exactly.  Rounding of the doubles is not modelled.                      *)
(*                                                                         *)
(* Indices are 1-based here and 0-based in the program.                    *)
(***************************************************************************)
EXTENDS Integers, Sequences, FiniteSets

VARIABLES
    distance_matrix,  \* analyze_distances: its first argument
    sequence_ids,     \* analyze_distances: its second argument
    z_threshold,      \* analyze_distances: its third argument
    detect_ret,       \* analyze_distances: how the call ended
    alignment,        \* calculate_distance_matrix: its first argument
    model,            \* calculate_distance_matrix: its second argument
    build_ret,        \* calculate_distance_matrix: how the call ended
    pc,               \* main: position in the function
    args,             \* main: the parsed command line
    directory,        \* main: the alignment files of input_dir, in glob order
    input_files,      \* main: the list of files found
    results,          \* main: one entry per processed file
    report            \* the report file: None until write_report writes it

vars == <<distance_matrix, sequence_ids, z_threshold, detect_ret,
          alignment, model, build_ret,
          pc, args, directory, input_files, results, report>>

\* Bounds of the model.
MaxN == 4          \* largest distance matrix and longest identifier list
MaxRecords == 3    \* most records in an alignment
MaxLen == 2        \* most columns in an alignment
MaxFiles == 2      \* most alignment files in the input directory

-----------------------------------------------------------------------------
(* Exact arithmetic standing for the doubles *)

Abs(n) == IF n < 0 THEN -n ELSE n

Sign(n) == IF n < 0 THEN -1 ELSE IF n = 0 THEN 0 ELSE 1

RECURSIVE GCD(_, _)
GCD(a, b) == IF b = 0 THEN a ELSE GCD(b, a % b)

\* The float n/d, reduced; d # 0.
Rat(n, d) ==
    LET g == GCD(Abs(n), Abs(d))
        s == IF d < 0 THEN -1 ELSE 1
    IN  [num |-> (s * n) \div g, den |-> (s * d) \div g]

NaN == [num |-> 0, den |-> 0]

IsNaN(x) == x.den = 0

Zero == Rat(0, 1)

One == Rat(1, 1)

\* Float arithmetic: NaN propagates, and x / 0 is NaN here because the only
\* quotients the program forms with a zero divisor are 0 / 0.
FAdd(x, y) ==
    IF IsNaN(x) \/ IsNaN(y) THEN NaN
    ELSE Rat(x.num * y.den + y.num * x.den, x.den * y.den)

FSub(x, y) ==
    IF IsNaN(x) \/ IsNaN(y) THEN NaN
    ELSE Rat(x.num * y.den - y.num * x.den, x.den * y.den)

FMul(x, y) ==
    IF IsNaN(x) \/ IsNaN(y) THEN NaN
    ELSE Rat(x.num * y.num, x.den * y.den)

FDiv(x, y) ==
    IF IsNaN(x) \/ IsNaN(y) \/ y.num = 0 THEN NaN
    ELSE Rat(x.num * y.den, x.den * y.num)

\* x < y on floats: every comparison with NaN is false.
FLess(x, y) ==
    /\ ~IsNaN(x)
    /\ ~IsNaN(y)
    /\ x.num * y.den < y.num * x.den

FSign(x) == Sign(x.num)

RECURSIVE FSum(_)
FSum(xs) == IF Len(xs) = 0 THEN Zero ELSE FAdd(Head(xs), FSum(Tail(xs)))

\* A z-score: sign * sqrt(square); NaN when square is NaN.
ZNaN == [sign |-> 0, square |-> NaN]

ZIsNaN(z) == IsNaN(z.square)

-----------------------------------------------------------------------------
(* Outcomes of a call *)

Return(v) == [kind |-> "return", value |-> v]

Raise(e) == [kind |-> "raise", exc |-> e]

NotCalled == [kind |-> "not_called"]

\* Python's None.
None == [none |-> TRUE]

-----------------------------------------------------------------------------
(* Bio.Phylo.TreeConstruction.DistanceMatrix: the names and the lower      *)
(* triangle, row i holding the entries of columns 1..i.                    *)

Dim(dm) == Len(dm.matrix)

\* distance_matrix[i, j] is defined only inside the matrix (IndexError otherwise).
InRange(dm, i, j) == i \in 1..Dim(dm) /\ j \in 1..Dim(dm)

GetItem(dm, i, j) == IF i > j THEN dm.matrix[i][j] ELSE dm.matrix[j][i]

-----------------------------------------------------------------------------
(* analyze_distances *)

\* The distances from sequence i to all others, in column order.
seq_distances(dm, n, i) ==
    [k \in 1..(n - 1) |-> GetItem(dm, i, IF k < i THEN k ELSE k + 1)]

\* numpy.mean of a list: NaN for the empty list.
np_mean(xs) ==
    IF Len(xs) = 0 THEN NaN ELSE FDiv(FSum(xs), Rat(Len(xs), 1))

\* scipy.stats.zscore with ddof degrees of freedom: (a - mean) / std, where
\* std^2 = sum((a - mean)^2) / (len(a) - ddof).  A zero std gives 0 / 0.
zscore_ddof(a, ddof) ==
    LET n   == Len(a)
        mn  == np_mean(a)
        dev == [i \in 1..n |-> FSub(a[i], mn)]
        var == FDiv(FSum([i \in 1..n |-> FMul(dev[i], dev[i])]), Rat(n - ddof, 1))
    IN  [i \in 1..n |->
            LET sq == FDiv(FMul(dev[i], dev[i]), var)
            IN  IF IsNaN(sq) THEN ZNaN ELSE [sign |-> FSign(dev[i]), square |-> sq]]

stats_zscore_sample(a) == zscore_ddof(a, 1)

\* stats.zscore(avg_distances): the default ddof = 0.
stats_zscore(a) == zscore_ddof(a, 0)

\* z >= t, the comparison a tie would pass.
GreaterOrEqual(z, t) ==
    /\ ~ZIsNaN(z)
    /\ ~IsNaN(t)
    /\ CASE z.sign = 1  -> FSign(t) <= 0 \/ ~FLess(z.square, FMul(t, t))
         [] z.sign = 0  -> FSign(t) <= 0
         [] z.sign = -1 -> FSign(t) < 0 /\ ~FLess(FMul(t, t), z.square)

\* A comparison that takes NaN for large.
GreaterOrNaN(z, t) ==
    \/ ZIsNaN(z)
    \/ CASE z.sign = 1  -> FSign(t) <= 0 \/ FLess(FMul(t, t), z.square)
         [] z.sign = 0  -> FSign(t) < 0
         [] z.sign = -1 -> FSign(t) < 0 /\ FLess(z.square, FMul(t, t))

\* |z| > t, the two-sided test.
GreaterAbs(z, t) ==
    /\ ~ZIsNaN(z)
    /\ ~IsNaN(t)
    /\ (FSign(t) < 0 \/ FLess(FMul(t, t), z.square))

\* z_score > z_threshold: false when z is NaN.
Greater(z, t) ==
    /\ ~ZIsNaN(z)
    /\ ~IsNaN(t)
    /\ CASE z.sign = 1  -> FSign(t) <= 0 \/ FLess(FMul(t, t), z.square)
         [] z.sign = 0  -> FSign(t) < 0
         [] z.sign = -1 -> FSign(t) < 0 /\ FLess(z.square, FMul(t, t))

\* The loop over enumerate(zip(avg_distances, z_scores)), from index i on.
RECURSIVE outliers_from(_, _, _, _, _)
outliers_from(ids, avg, z, zt, i) ==
    IF i > Len(avg) \/ i > Len(z) THEN <<>>
    ELSE (IF Greater(z[i], zt) THEN <<<<ids[i], avg[i], z[i]>>>> ELSE <<>>)
         \o outliers_from(ids, avg, z, zt, i + 1)

analyze_distances(dm, ids, zt) ==
    LET n_sequences == Len(ids)
    IN  IF \E i, j \in 1..n_sequences : i # j /\ ~InRange(dm, i, j)
        THEN Raise("IndexError")
        ELSE LET avg_distances ==
                     [i \in 1..n_sequences |-> np_mean(seq_distances(dm, n_sequences, i))]
                 z_scores == stats_zscore(avg_distances)
             IN  Return([outliers      |-> outliers_from(ids, avg_distances, z_scores, zt, 1),
                         avg_distances |-> avg_distances,
                         z_scores      |-> z_scores])

-----------------------------------------------------------------------------
(* Inputs of analyze_distances *)

SeqNames == <<"s1", "s2", "s3", "s4", "s5", "s6">>

\* The first n identifiers, all different.
Ids(n) == [i \in 1..n |-> SeqNames[i]]

\* Identity distances of one-column alignments: 0 or 1.
DistValues == {Zero, One}

Below(d) == {p \in (1..d) \X (1..d) : p[1] > p[2]}

\* The d x d distance matrices: zero diagonal, any value below it.
Matrices(d) ==
    {[names  |-> Ids(d),
      matrix |-> [i \in 1..d |-> [j \in 1..i |-> IF j = i THEN Zero ELSE u[<<i, j>>]]]] :
        u \in [Below(d) -> DistValues]}

Thresholds == {Rat(-1, 1), Zero, One, Rat(3, 2), Rat(3, 1)}

IdleDetect ==
    /\ distance_matrix = None
    /\ sequence_ids = <<>>
    /\ z_threshold = Rat(3, 1)
    /\ detect_ret = NotCalled

IdleBuild ==
    /\ alignment = <<>>
    /\ model = "identity"
    /\ build_ret = NotCalled

IdleMain ==
    /\ pc = "idle"
    /\ args = None
    /\ directory = <<>>
    /\ input_files = <<>>
    /\ results = <<>>
    /\ report = None

InitDetect ==
    /\ \E d \in 0..MaxN : distance_matrix \in Matrices(d)
    /\ \E n \in 0..MaxN : sequence_ids = Ids(n)
    /\ z_threshold \in Thresholds
    /\ detect_ret = NotCalled
    /\ IdleBuild
    /\ IdleMain

\* A caller applies analyze_distances to its arguments.
AnalyzeDistances ==
    /\ detect_ret = NotCalled
    /\ distance_matrix # None
    /\ detect_ret' = analyze_distances(distance_matrix, sequence_ids, z_threshold)
    /\ UNCHANGED <<distance_matrix, sequence_ids, z_threshold,
                   alignment, model, build_ret,
                   pc, args, directory, input_files, results, report>>

NextDetect == AnalyzeDistances

SpecDetect == InitDetect /\ [][NextDetect]_vars

-----------------------------------------------------------------------------
(* Properties of analyze_distances *)

DetectReturned == detect_ret.kind = "return"

N == Len(sequence_ids)

\* The mean of row i over the columns j # i among the first n, from the matrix.
RowMean(dm, n, i) ==
    FDiv(FSum([j \in 1..n |-> IF j = i THEN Zero ELSE GetItem(dm, i, j)]), Rat(n - 1, 1))

\* The order of a z-score and a threshold: "above", "equal", "below" or "nan".
Order(z, t) ==
    IF ZIsNaN(z) \/ IsNaN(t) THEN "nan"
    ELSE LET tt == FMul(t, t)
             \* sign(z^2 - t^2)
             c  == Sign(z.square.num * tt.den - tt.num * z.square.den)
         IN  IF z.sign > FSign(t) THEN "above"
             ELSE IF z.sign < FSign(t) THEN "below"
             ELSE IF z.sign * c > 0 THEN "above"
             ELSE IF z.sign * c < 0 THEN "below"
             ELSE "equal"

\* The deviation of mean i from the mean of the returned means.
Deviation(avg, i) == FSub(avg[i], FDiv(FSum(avg), Rat(Len(avg), 1)))

SumSquares(avg) == FSum([k \in 1..Len(avg) |-> FMul(Deviation(avg, k), Deviation(avg, k))])

\* sigma = 0: all per-sequence mean distances of the matrix are equal.
ZeroVariance ==
    /\ N >= 2
    /\ N = Dim(distance_matrix)
    /\ \A i, k \in 1..N :
          RowMean(distance_matrix, N, i) = RowMean(distance_matrix, N, k)

\* C1: for N >= 2 the returned outliers are exactly the sequences whose
\* z-score is strictly above z_threshold, in positional order (the k-th
\* outlier is the k-th flagged index), a z-score equal to the threshold is
\* not flagged, and avg_distances and z_scores are indexed by position.
C1_OutliersAreTheFlaggedInOrder ==
    (DetectReturned /\ N >= 2) =>
        LET r       == detect_ret.value
            flagged == {i \in 1..N : Order(r.z_scores[i], z_threshold) = "above"}
            rank(i) == Cardinality({k \in flagged : k <= i})
        IN  /\ Len(r.avg_distances) = N
            /\ Len(r.z_scores) = N
            /\ \A i \in 1..N :
                  /\ r.avg_distances[i] = RowMean(distance_matrix, N, i)
                  /\ ~ZIsNaN(r.z_scores[i]) =>
                        r.z_scores[i].sign = FSign(Deviation(r.avg_distances, i))
            /\ Len(r.outliers) = Cardinality(flagged)
            /\ \A i \in flagged :
                  r.outliers[rank(i)] = <<sequence_ids[i], r.avg_distances[i], r.z_scores[i]>>

\* A call on at least four sequences that flagged one after a sequence it
\* skipped, and left a sequence tied with the threshold unflagged.
C1_Witness ==
    /\ DetectReturned
    /\ N >= 4
    /\ Len(detect_ret.value.outliers) >= 1
    /\ \E i \in 1..N : Order(detect_ret.value.z_scores[i], z_threshold) = "equal"
    /\ \E i, k \in 1..N :
          /\ i < k
          /\ Order(detect_ret.value.z_scores[i], z_threshold) = "below"
          /\ Order(detect_ret.value.z_scores[k], z_threshold) = "above"

\* C2: with all mean distances equal the call returns, and the outlier
\* list is empty, whatever the threshold.
C2_ZeroVarianceNoOutliers ==
    (detect_ret # NotCalled /\ ZeroVariance) =>
        /\ DetectReturned
        /\ detect_ret.value.outliers = <<>>

\* Zero variance with non-zero distances and a negative threshold.
C2_Witness ==
    /\ DetectReturned
    /\ ZeroVariance
    /\ N >= 3
    /\ GetItem(distance_matrix, 1, 2) = One
    /\ FSign(z_threshold) < 0

\* C3: with sigma = 0 every returned z-score is the number 0.
C3_ZeroVarianceZScoresAreZero ==
    (DetectReturned /\ ZeroVariance) =>
        \A i \in 1..N : detect_ret.value.z_scores[i] = [sign |-> 0, square |-> Zero]

\* The matrix of A = B = C = "AAAA", D = "TTTT".
ScenarioMatrix ==
    [names  |-> Ids(4),
     matrix |-> <<<<Zero>>, <<Zero, Zero>>, <<Zero, Zero, Zero>>, <<One, One, One, Zero>>>>]

\* C4: for N >= 2 and sigma > 0, mean_distance[i] is the mean of row i
\* over the N - 1 other columns and z_score[i] = (mean_distance[i] - mu) /
\* sigma with sigma^2 = sum of squared deviations / N; for the matrix of
\* AAAA, AAAA, AAAA, TTTT nothing is flagged at 3.0 and exactly the fourth
\* sequence at 1.5.
C4_PopulationZScores ==
    /\ (DetectReturned /\ N >= 2 /\ N = Dim(distance_matrix) /\ ~ZeroVariance) =>
          LET r == detect_ret.value
          IN  \A i \in 1..N :
                 /\ r.avg_distances[i] = RowMean(distance_matrix, N, i)
                 /\ r.z_scores[i].sign = FSign(Deviation(r.avg_distances, i))
                 \* z^2 * sum of squares = N * deviation^2
                 /\ FMul(r.z_scores[i].square, SumSquares(r.avg_distances))
                      = FMul(Rat(N, 1), FMul(Deviation(r.avg_distances, i),
                                             Deviation(r.avg_distances, i)))
    /\ (DetectReturned /\ distance_matrix = ScenarioMatrix /\ sequence_ids = Ids(4)) =>
          LET r == detect_ret.value
          IN  /\ r.avg_distances = <<Rat(1, 3), Rat(1, 3), Rat(1, 3), One>>
              /\ r.z_scores[4] = [sign |-> 1, square |-> Rat(3, 1)]
              /\ z_threshold = Rat(3, 1) => r.outliers = <<>>
              /\ z_threshold = Rat(3, 2) =>
                    r.outliers = <<<<"s4", One, [sign |-> 1, square |-> Rat(3, 1)]>>>>

\* The scenario at threshold 1.5, the fourth sequence flagged.
C4_Witness ==
    /\ DetectReturned
    /\ distance_matrix = ScenarioMatrix
    /\ sequence_ids = Ids(4)
    /\ z_threshold = Rat(3, 2)
    /\ Len(detect_ret.value.outliers) = 1

\* C5: a call with fewer than two sequences fails.
C5_FewerThanTwoFails ==
    (detect_ret # NotCalled /\ N < 2) => detect_ret.kind = "raise"

\* C6: a call whose identifier list and matrix differ in size fails.
C6_DimensionMismatchFails ==
    (detect_ret # NotCalled /\ N # Dim(distance_matrix)) => detect_ret.kind = "raise"

\* The z-scores of the outliers returned.
OutlierZScores == {detect_ret.value.outliers[k][3] : k \in 1..Len(detect_ret.value.outliers)}

\* C9 as claimed: for every threshold, no sequence with z-score <= 0 is in
\* the outlier list.
C9_NeverFlagsAtOrBelowMean ==
    DetectReturned => \A z \in OutlierZScores : z.sign = 1

\* C9 amended: for every threshold >= 0, no sequence whose mean distance is
\* at or below the group mean is in the outlier list.
C9_NonNegativeThresholdOneSided ==
    (DetectReturned /\ FSign(z_threshold) >= 0) =>
        \A i \in 1..Len(detect_ret.value.avg_distances) :
            FSign(Deviation(detect_ret.value.avg_distances, i)) <= 0 =>
                \A k \in 1..Len(detect_ret.value.outliers) :
                    detect_ret.value.outliers[k][1] # sequence_ids[i]

\* A positive threshold, a sequence further below the mean than the
\* threshold is above it, and another sequence flagged.
C9_Witness ==
    /\ DetectReturned
    /\ FSign(z_threshold) > 0
    /\ Len(detect_ret.value.outliers) >= 1
    /\ \E i \in 1..N :
          /\ detect_ret.value.z_scores[i].sign = -1
          /\ FLess(FMul(z_threshold, z_threshold), detect_ret.value.z_scores[i].square)

-----------------------------------------------------------------------------
(* calculate_distance_matrix *)

\* An alignment is a sequence of records [id, seq], seq a sequence of letters.
\* Bio.Align.MultipleSeqAlignment holds only rows of one length.
IsMultipleSeqAlignment(a) ==
    \A i, k \in 1..Len(a) : Len(a[i].seq) = Len(a[k].seq)

\* The number of columns at which two rows agree (zip stops at the shorter).
Matches(seq1, seq2) ==
    LET m == IF Len(seq1) < Len(seq2) THEN Len(seq1) ELSE Len(seq2)
    IN  Cardinality({c \in 1..m : seq1[c] = seq2[c]})

\* The share of agreeing columns, a similarity.
pairwise_similarity(seq1, seq2) ==
    IF Len(seq1) = 0 THEN One ELSE Rat(Matches(seq1, seq2), Len(seq1))

\* DistanceCalculator._pairwise under the identity model, which skips no
\* letter: 1 - score / max_score, and 1 when max_score is 0.
pairwise(seq1, seq2) ==
    IF Len(seq1) = 0 THEN One
    ELSE FSub(One, Rat(Matches(seq1, seq2), Len(seq1)))

\* DistanceCalculator(model): ValueError for a model that is not registered.
\* Of the registered models only "identity", the one the program uses, is
\* modelled.
DistanceCalculator(m) ==
    IF m = "identity" THEN Return([model |-> m]) ELSE Raise("ValueError")

\* calculator.get_distance(alignment): TypeError for an argument that is no
\* alignment object, ValueError from DistanceMatrix(names) for duplicate
\* names, else the matrix of pairwise distances over a zero diagonal.
get_distance(a) ==
    IF ~IsMultipleSeqAlignment(a) THEN Raise("TypeError")
    ELSE IF \E i, k \in 1..Len(a) : i # k /\ a[i].id = a[k].id THEN Raise("ValueError")
    ELSE Return([names  |-> [i \in 1..Len(a) |-> a[i].id],
                 matrix |-> [i \in 1..Len(a) |->
                               [j \in 1..i |->
                                  IF j = i THEN Zero ELSE pairwise(a[j].seq, a[i].seq)]]])

calculate_distance_matrix(a, m) ==
    LET calculator == DistanceCalculator(m)
    IN  IF calculator.kind = "raise" THEN calculator
        ELSE LET got == get_distance(a)
             IN  IF got.kind = "raise" THEN Return(None)   \* except Exception
                 ELSE Return(got.value)

-----------------------------------------------------------------------------
(* Inputs of calculate_distance_matrix *)

Alphabet == {"A", "T"}

\* The residue strings of 1 to MaxLen letters.
Residues == UNION {[1..l -> Alphabet] : l \in 1..MaxLen}

\* Identifier lists of length n: all different, or the second repeating the first.
IdLists(n) ==
    {Ids(n)} \cup (IF n >= 2 THEN {[Ids(n) EXCEPT ![2] = "s1"]} ELSE {})

\* The record lists of n records, of equal length or not.
RecordLists(n) ==
    {[i \in 1..n |-> [id |-> ids[i], seq |-> rs[i]]] :
        ids \in IdLists(n), rs \in [1..n -> Residues]}

InitBuild ==
    /\ \E n \in 0..MaxRecords : alignment \in RecordLists(n)
    /\ model \in {"identity", "unregistered"}
    /\ build_ret = NotCalled
    /\ IdleDetect
    /\ IdleMain

\* A caller applies calculate_distance_matrix to its arguments.
CalculateDistanceMatrix ==
    /\ build_ret = NotCalled
    /\ pc = "idle"
    /\ build_ret' = calculate_distance_matrix(alignment, model)
    /\ UNCHANGED <<distance_matrix, sequence_ids, z_threshold, detect_ret,
                   alignment, model,
                   pc, args, directory, input_files, results, report>>

NextBuild == CalculateDistanceMatrix

SpecBuild == InitBuild /\ [][NextBuild]_vars

-----------------------------------------------------------------------------
(* Properties of calculate_distance_matrix *)

\* A valid alignment: at least one record, all of one length >= 1.
ValidAlignment ==
    /\ Len(alignment) >= 1
    /\ \A i \in 1..Len(alignment) :
          /\ Len(alignment[i].seq) >= 1
          /\ Len(alignment[i].seq) = Len(alignment[1].seq)

\* C7: unequal lengths or no records end the call with an error, so does an
\* unregistered model, and the caller is never handed None.
C7_MalformedInputRaises ==
    (build_ret # NotCalled) =>
        /\ model # "identity" => build_ret.kind = "raise"
        /\ ~ValidAlignment => build_ret.kind = "raise"
        /\ build_ret # Return(None)

\* The columns at which records i and k differ.
Differing(i, k) ==
    {c \in 1..Len(alignment[i].seq) : alignment[i].seq[c] # alignment[k].seq[c]}

\* C8: the matrix returned for a valid alignment under the identity model
\* has M[i][j] = M[j][i], M[i][i] = 0, and every entry is the share of
\* columns at which the two sequences differ, between 0 and 1.
C8_SymmetricZeroDiagonalFractions ==
    (build_ret.kind = "return" /\ build_ret.value # None
        /\ ValidAlignment /\ model = "identity") =>
        LET M == build_ret.value
            n == Len(alignment)
            L == Len(alignment[1].seq)
        IN  /\ Dim(M) = n
            /\ \A i, j \in 1..n :
                  /\ GetItem(M, i, j) = GetItem(M, j, i)
                  /\ GetItem(M, i, j).num * L = Cardinality(Differing(i, j)) * GetItem(M, i, j).den
                  /\ GetItem(M, i, j).den > 0
                  /\ GetItem(M, i, j).num >= 0
                  /\ GetItem(M, i, j).num <= GetItem(M, i, j).den
                  /\ i = j => GetItem(M, i, j) = Zero

\* A matrix returned for three sequences, with one distance strictly
\* between 0 and 1 and one equal to 1.
C8_Witness ==
    /\ build_ret.kind = "return"
    /\ build_ret.value # None
    /\ ValidAlignment
    /\ Len(alignment) = 3
    /\ GetItem(build_ret.value, 1, 2) = Rat(1, 2)
    /\ GetItem(build_ret.value, 3, 1) = One

-----------------------------------------------------------------------------
(* The run of main over the files of a directory *)

\* load_alignment: AlignIO.read raises for a file with no record and for
\* records of unequal length, and the handler turns every exception into None.
load_alignment(file) ==
    IF Len(file.records) = 0 \/ ~IsMultipleSeqAlignment(file.records) THEN None
    ELSE [records |-> file.records]

\* plot_distance_distribution: the histogram of z-scores that are all NaN has
\* no finite range, and ax2.hist raises ValueError; otherwise the path of the
\* saved plot.
plot_distance_distribution(z_scores, alignment_name) ==
    IF Len(z_scores) > 0 /\ \A i \in 1..Len(z_scores) : ZIsNaN(z_scores[i])
    THEN Raise("ValueError")
    ELSE Return([png |-> alignment_name])

process_alignment_file(file, zt, generate_plot) ==
    LET loaded == load_alignment(file)
    IN  IF loaded = None THEN Return(None)
        ELSE
        LET a   == loaded.records
            ids == [i \in 1..Len(a) |-> a[i].id]
            dm  == calculate_distance_matrix(a, "identity")
        IN  IF dm.kind = "raise" THEN dm
            ELSE IF dm.value = None THEN Return(None)
            ELSE
            LET found == analyze_distances(dm.value, ids, zt)
            IN  IF found.kind = "raise" THEN found
                ELSE
                LET res == [alignment_name   |-> file.name,
                            file_path        |-> file.name,
                            num_sequences    |-> Len(a),
                            alignment_length |-> Len(a[1].seq),
                            outliers         |-> found.value.outliers,
                            plot_path        |-> None]
                    plot == plot_distance_distribution(found.value.z_scores, file.name)
                IN  IF ~generate_plot THEN Return(res)
                    ELSE IF plot.kind = "raise" THEN plot
                    ELSE Return([res EXCEPT !.plot_path = plot.value])

Text(t) == [text |-> t]

NoOutliersAnywhere == Text("No outlier sequences were detected in any alignments.")

\* The lines write_report writes for one result.
ResultLines(result) ==
    IF result = None THEN <<>>
    ELSE <<[alignment |-> result.alignment_name],
           [file |-> result.file_path],
           [sequences |-> result.num_sequences],
           [alignment_length |-> result.alignment_length]>>
         \o (IF result.outliers # <<>>
             THEN <<Text("Potential outlier sequences:")>>
                  \o [k \in 1..Len(result.outliers) |-> [outlier |-> result.outliers[k]]]
                  \o (IF result.plot_path # None
                      THEN <<[plot_saved_to |-> result.plot_path]>> ELSE <<>>)
             ELSE <<Text("No outlier sequences detected.")>>)
         \o <<Text("--------------------------------------------------")>>

RECURSIVE AllResultLines(_)
AllResultLines(rs) ==
    IF Len(rs) = 0 THEN <<>> ELSE ResultLines(Head(rs)) \o AllResultLines(Tail(rs))

\* The report file write_report writes for the results.
write_report(rs) ==
    LET found_outliers == \E k \in 1..Len(rs) : rs[k] # None /\ rs[k].outliers # <<>>
    IN  [lines |->
            <<Text("OUTLIER SEQUENCE ANALYSIS REPORT"), Text("===============================")>>
            \o AllResultLines(rs)
            \o (IF ~found_outliers THEN <<NoOutliersAnywhere>> ELSE <<>>)]

FileNames == <<"f1", "f2", "f3", "f4">>

\* The contents a file may have: up to MaxRecords records of one column,
\* with or without a repeated identifier, or two records of unequal length.
FileContents ==
    UNION {{[i \in 1..n |-> [id |-> ids[i], seq |-> <<rs[i]>>]] :
                ids \in IdLists(n), rs \in [1..n -> Alphabet]} : n \in 0..MaxRecords}
    \cup {<<[id |-> "s1", seq |-> <<"A">>], [id |-> "s2", seq |-> <<"A", "T">>]>>}

\* The directories of n alignment files.
Directories(n) ==
    {[i \in 1..n |-> [name |-> FileNames[i], records |-> c[i]]] :
        c \in [1..n -> FileContents]}

InitMain ==
    /\ pc = "start"
    /\ args \in [z_threshold : {One, Rat(3, 1)}, plot : BOOLEAN]
    /\ \E n \in 0..MaxFiles : directory \in Directories(n)
    /\ input_files = <<>>
    /\ results = <<>>
    /\ report = None
    /\ IdleDetect
    /\ IdleBuild

\* main up to the loop: list the alignment files, and return if there are none.
Scan ==
    /\ pc = "start"
    /\ input_files' = directory
    /\ pc' = IF Len(directory) = 0 THEN "done" ELSE "process"
    /\ UNCHANGED <<distance_matrix, sequence_ids, z_threshold, detect_ret,
                   alignment, model, build_ret,
                   args, directory, results, report>>

\* One round of the loop of main: process the next file and append its result;
\* an exception leaves main.
ProcessNext ==
    /\ pc = "process"
    /\ Len(results) < Len(input_files)
    /\ LET got == process_alignment_file(input_files[Len(results) + 1],
                                         args.z_threshold, args.plot)
       IN  IF got.kind = "raise"
           THEN pc' = "crashed" /\ UNCHANGED results
           ELSE /\ results' = Append(results, got.value)
                /\ pc' = IF Len(results) + 1 = Len(input_files) THEN "report" ELSE "process"
    /\ UNCHANGED <<distance_matrix, sequence_ids, z_threshold, detect_ret,
                   alignment, model, build_ret,
                   args, directory, input_files, report>>

\* The end of main: write the report.
WriteReport ==
    /\ pc = "report"
    /\ report' = write_report(results)
    /\ pc' = "done"
    /\ UNCHANGED <<distance_matrix, sequence_ids, z_threshold, detect_ret,
                   alignment, model, build_ret,
                   args, directory, input_files, results>>

NextMain == Scan \/ ProcessNext \/ WriteReport

SpecMain == InitMain /\ [][NextMain]_vars

-----------------------------------------------------------------------------
(* Properties of main *)

RunEnded == pc \in {"done", "crashed"}

SomeOutlier == \E k \in 1..Len(results) : results[k] # None /\ results[k].outliers # <<>>

\* C10: a run in which no alignment yields an outlier ends with a report
\* holding the statement that none was detected, the statement is written
\* only if no processed result has an outlier, and None results are skipped.
C10_NoOutlierRunsReportIt ==
    RunEnded =>
        /\ ~SomeOutlier =>
              /\ report # None
              /\ \E l \in 1..Len(report.lines) : report.lines[l] = NoOutliersAnywhere
        /\ (report # None /\ \E l \in 1..Len(report.lines) : report.lines[l] = NoOutliersAnywhere)
              => ~SomeOutlier

====
